---- MODULE Spec2Model ----
(***************************************************************************)
(* Model of src/arm_teleop.py: the keyboard teleoperation node ArmTeleop.  *)
(*                                                                         *)
(* Units.  Time is counted in tenths of a second (the clock read by        *)
(* get_clock().now() and the period 1.0/hz of the loop), positions in      *)
(* thousandths (0.001 is the smallest entry of movement_bindings), so that *)
(* every constant of the program is an integer.  Floating-point rounding   *)
(* of the additions is not modelled.  The clock never runs backwards.      *)
(***************************************************************************)
EXTENDS Integers, Sequences, FiniteSets, TLC

\* ---------------------------------------------------------------- bounds
\* Key events (anything but "no key") polled in one run.
MaxKeys == 3
\* The control loop starts no tick once the clock has reached this value.
MaxClock == 7
\* Longest time that passes between the key handler and the integration step.
MaxStall == 4
\* Key events polled in one run when the operator may type any key.
MaxWideKeys == 2

\* ------------------------------------------------------- program constants
\* self._pressed_duration = 0.4, in tenths of a second.
PressedDuration == 4
\* time.sleep(1.0 / self._hz) with self._hz = 10, in tenths of a second.
SleepTime == 1

\* movement_bindings, in thousandths.
MovementKeys == {"a", "d", "w", "s", "o", "p"}

\* A table with the signs of the two fine keys exchanged.
MovementBindingsFineSwapped(k) ==
    CASE k = "a" -> -10
      [] k = "d" -> 10
      [] k = "w" -> -1
      [] k = "s" -> 1
      [] k = "o" -> -1570
      [] k = "p" -> 1570

movement_bindings(k) ==
    CASE k = "a" -> -10
      [] k = "d" -> 10
      [] k = "w" -> 1
      [] k = "s" -> -1
      [] k = "o" -> -1570
      [] k = "p" -> 1570

\* A selection is what self._selected_joint holds: an int (arm joint index),
\* the string 'torso' or 'gripper', or None.
Joint(i) == [kind |-> "int", index |-> i]
Torso == [kind |-> "torso", index |-> 0]
Gripper == [kind |-> "gripper", index |-> 0]
None == [kind |-> "None", index |-> 0]

JointKeys == {"1", "2", "3", "4", "5", "6", "7", "8", "9"}

\* A table that takes the digit itself as the arm joint index.
JointBindingsByDigit(k) ==
    CASE k = "1" -> Joint(1)
      [] k = "2" -> Joint(2)
      [] k = "3" -> Joint(3)
      [] k = "4" -> Joint(4)
      [] k = "5" -> Joint(5)
      [] k = "6" -> Joint(6)
      [] k = "7" -> Joint(6)
      [] k = "8" -> Torso
      [] k = "9" -> Gripper

joint_bindings(k) ==
    CASE k = "1" -> Joint(0)
      [] k = "2" -> Joint(1)
      [] k = "3" -> Joint(2)
      [] k = "4" -> Joint(3)
      [] k = "5" -> Joint(4)
      [] k = "6" -> Joint(5)
      [] k = "7" -> Joint(6)
      [] k = "8" -> Torso
      [] k = "9" -> Gripper

\* Key codes getch() can deliver: the bound keys, and "x" for any other key.
KeyCodes == JointKeys \cup MovementKeys \cup {"r", "q", "x"}
\* The keys the operator types in the runs explored: one arm joint, the torso,
\* the gripper, a small and a large adjustment, reselect, quit, an unbound key.
Typed == {"3", "8", "9", "d", "o", "r", "q", "x"}
\* read_key() returns None when getch() returns -1.
NoKey == "none"

\* The three action clients and the joints their goals name.
Clients == {"arm", "torso", "gripper"}
ArmJointNames ==
    <<"arm_1_joint", "arm_2_joint", "arm_3_joint", "arm_4_joint",
      "arm_5_joint", "arm_6_joint", "arm_7_joint">>
TorsoJointNames == <<"torso_lift_joint">>
GripperJointNames == <<"gripper_right_finger_joint", "gripper_left_finger_joint">>

\* error_code values a result can carry (0 is SUCCESSFUL).
ErrorCodes == {0, -1}

\* __init__: the startup positions.
InitArm == <<200, -1340, -200, 1940, -1570, 1370, 0>>
InitTorso == 150
InitGripper == 0

EmptyPressed == [k \in {} |-> 0]

VARIABLES
    running,                 \* self._running
    selected_joint,          \* self._selected_joint
    goal_sent,               \* self._goal_sent (the dirty flag)
    last_pressed,            \* self._last_pressed: key -> time of the press
    joint_positions_arm,     \* self._joint_positions_arm
    joint_position_torso,    \* self._joint_position_torso
    joint_position_gripper,  \* self._joint_position_gripper
    keycode,                 \* the local keycode of run()
    pc,                      \* where run() stands
    now,                     \* the node's clock
    goals,                   \* goals submitted with send_goal_async, in order
    server_ready,            \* clients whose action server was found available
    nkeys,                   \* key events polled so far
    seen                     \* history: what the last integration step started
                             \* from, and the deltas of the keys polled so far

control == <<running, selected_joint, goal_sent, last_pressed,
             joint_positions_arm, joint_position_torso, joint_position_gripper>>
positions == <<joint_positions_arm, joint_position_torso, joint_position_gripper>>
vars == <<running, selected_joint, goal_sent, last_pressed,
          joint_positions_arm, joint_position_torso, joint_position_gripper,
          keycode, pc, now, goals, server_ready, nkeys, seen>>

\* Nothing polled yet: for each target, the sum of the deltas of the
\* adjustment keys polled while it was selected.
NonePolled == [arm |-> <<0, 0, 0, 0, 0, 0, 0>>, torso |-> 0, gripper |-> 0]

NoTick == [pressed |-> EmptyPressed, at |-> 0, selected |-> None,
           arm |-> InitArm, torso |-> InitTorso, gripper |-> InitGripper,
           ticks |-> 0, goals |-> 0, polled |-> NonePolled]

Init ==
    /\ running = TRUE
    /\ selected_joint = None
    /\ goal_sent = FALSE
    /\ last_pressed = EmptyPressed
    /\ joint_positions_arm = InitArm
    /\ joint_position_torso = InitTorso
    /\ joint_position_gripper = InitGripper
    /\ keycode = NoKey
    /\ pc = "loop"
    /\ now = 0
    /\ goals = <<>>
    /\ server_ready = {}
    /\ nkeys = 0
    /\ seen = NoTick

\* ------------------------------------------------------------ _key_pressed
\* self._last_pressed[keycode] = self.get_clock().now()
RecordPress(k) ==
    [x \in DOMAIN last_pressed \cup {k} |-> IF x = k THEN now ELSE last_pressed[x]]

\* A test that leaves out `self._selected_joint is not None`.
RecordsPressUnselected(k) == k \in MovementKeys

\* The branch of _key_pressed that records an adjustment key.
RecordsPress(k) == k \in MovementKeys /\ selected_joint # None

\* A handler whose last branch is a plain else: any unbound key reselects.
KeyPressedElseReselect(k) ==
    IF k = "q" THEN
        /\ running' = FALSE
        /\ UNCHANGED <<selected_joint, last_pressed>>
    ELSE IF k \in JointKeys THEN
        /\ selected_joint' = joint_bindings(k)
        /\ UNCHANGED <<running, last_pressed>>
    ELSE IF RecordsPress(k) THEN
        /\ last_pressed' = RecordPress(k)
        /\ UNCHANGED <<running, selected_joint>>
    ELSE
        /\ selected_joint' = None
        /\ UNCHANGED <<running, last_pressed>>

\* _key_pressed(keycode), but for what the interrupt does to run().
KeyPressed(k) ==
    IF k = "q" THEN
        /\ running' = FALSE
        /\ UNCHANGED <<selected_joint, last_pressed>>
    ELSE IF k \in JointKeys THEN
        /\ selected_joint' = joint_bindings(k)
        /\ UNCHANGED <<running, last_pressed>>
    ELSE IF RecordsPress(k) THEN
        /\ last_pressed' = RecordPress(k)
        /\ UNCHANGED <<running, selected_joint>>
    ELSE IF k = "r" THEN
        /\ selected_joint' = None
        /\ UNCHANGED <<running, last_pressed>>
    ELSE UNCHANGED <<running, selected_joint, last_pressed>>

\* The history of polled deltas once key k is polled: an adjustment key adds
\* its delta to the sum of the target selected at that moment.
PolledAfter(k) ==
    IF k \in MovementKeys /\ selected_joint # None
    THEN IF selected_joint.kind = "int"
         THEN [seen.polled EXCEPT !.arm[selected_joint.index + 1] =
                                        @ + movement_bindings(k)]
         ELSE IF selected_joint.kind = "torso"
         THEN [seen.polled EXCEPT !.torso = @ + movement_bindings(k)]
         ELSE [seen.polled EXCEPT !.gripper = @ + movement_bindings(k)]
    ELSE seen.polled

\* A loop that never tests the flag (while True).
LoopConditionAlways == TRUE

\* while self._running
LoopCondition == running

\* while self._running: keycode = read_key(); if keycode is not None:
\* self._key_pressed(keycode).  os.kill(getpid(), SIGINT) in the 'q' branch
\* either raises KeyboardInterrupt there, which ends run() at once, or (the
\* handler of the signal being outside this file) lets the tick go on.
\* The operator types keys of the set `keys`, at most `budget` of them.
ReadKeyFrom(keys, budget) ==
    /\ pc = "loop"
    /\ LoopCondition
    /\ now < MaxClock
    /\ \E k \in keys \cup {NoKey} :
        /\ keycode' = k
        /\ seen' = [seen EXCEPT !.polled = PolledAfter(k)]
        /\ IF k = NoKey
           THEN /\ nkeys' = nkeys
                /\ UNCHANGED <<running, selected_joint, last_pressed>>
                /\ pc' = "integrate"
           ELSE /\ nkeys < budget
                /\ nkeys' = nkeys + 1
                /\ KeyPressed(k)
                /\ IF k = "q" THEN pc' \in {"done", "integrate"}
                              ELSE pc' = "integrate"
    /\ UNCHANGED <<goal_sent, positions, now, goals, server_ready>>

ReadKey == ReadKeyFrom(Typed, MaxKeys)

\* The same with every key code at the operator's hand.
ReadKeyWide == ReadKeyFrom(KeyCodes, MaxWideKeys)

\* The same with the digits 1 to 9 alone.
ReadKeyDigits == ReadKeyFrom(JointKeys, MaxKeys)

\* The loop condition is false: run() returns.
LoopExit ==
    /\ pc = "loop"
    /\ ~LoopCondition
    /\ pc' = "done"
    /\ UNCHANGED <<control, keycode, now, goals, server_ready, nkeys, seen>>

\* ----------------------------------------------------------- _set_velocity
\* A comparison turned round: it takes the presses older than PressedDuration.
InWindowReversed(t, press_time) == t - press_time > PressedDuration

\* A comparison that also takes a press exactly PressedDuration old.
InWindowInclusive(t, press_time) == t - press_time <= PressedDuration

\* now - press_time < rclpyDuration(seconds=self._pressed_duration)
InWindow(t, press_time) == t - press_time < PressedDuration

\* keys: the recorded keys inside the window at time t.
DueKeys(t) == {k \in DOMAIN last_pressed : InWindow(t, last_pressed[k])}

RECURSIVE SumDelta(_)
SumDelta(ks) ==
    IF ks = {} THEN 0
    ELSE LET k == CHOOSE x \in ks : TRUE
         IN movement_bindings(k) + SumDelta(ks \ {k})

\* A clear done on every tick, whatever keys holds.
PressedAfterClearAlways(keys) == EmptyPressed

\* A removal of the applied keys alone.
PressedAfterRemoveApplied(keys) ==
    [k \in DOMAIN last_pressed \ keys |-> last_pressed[k]]

\* A step without the clear().
PressedAfterNeverCleared(keys) == last_pressed

\* self._last_pressed after `if keys: ... self._last_pressed.clear()`.
PressedAfter(keys) == IF keys # {} THEN EmptyPressed ELSE last_pressed

\* A flag set on every call, whatever keys holds.
DirtyAlways(keys) == TRUE

\* self._goal_sent after the loop over keys (line 139 runs once per key).
Dirty(keys) == goal_sent \/ keys # {}

\* _set_velocity(), reading the clock d after the last reading, and the test
\* `if self._goal_sent` of run() that follows it.
SetVelocity ==
    /\ pc = "integrate"
    /\ \E d \in 0..MaxStall :
        /\ now + d <= MaxClock
        /\ now' = now + d
        /\ LET keys == DueKeys(now + d)
               delta == SumDelta(keys)
           IN /\ seen' = [pressed |-> last_pressed, at |-> now + d,
                          selected |-> selected_joint,
                          arm |-> joint_positions_arm,
                          torso |-> joint_position_torso,
                          gripper |-> joint_position_gripper,
                          ticks |-> 1, goals |-> Len(goals),
                          polled |-> seen.polled]
              /\ joint_positions_arm' =
                    IF selected_joint.kind = "int"
                    THEN [joint_positions_arm EXCEPT
                            ![selected_joint.index + 1] = @ + delta]
                    ELSE joint_positions_arm
              /\ joint_position_torso' =
                    IF selected_joint.kind = "torso"
                    THEN joint_position_torso + delta
                    ELSE joint_position_torso
              /\ joint_position_gripper' =
                    IF selected_joint.kind = "gripper"
                    THEN joint_position_gripper + delta
                    ELSE joint_position_gripper
              /\ goal_sent' = Dirty(keys)
              /\ last_pressed' = PressedAfter(keys)
              /\ pc' = IF Dirty(keys) THEN "publish" ELSE "sleep"
    /\ UNCHANGED <<running, selected_joint, keycode, goals, server_ready, nkeys>>

\* ---------------------------------------------------------------- _publish
\* The client _publish() sends to, by the selection.
ClientOf(sel) ==
    IF sel.kind = "int" THEN "arm" ELSE sel.kind

\* _publish(): with no selection it sends nothing, and run() clears the flag;
\* otherwise it enters _send_goal_*, which first waits for the server.
Publish ==
    /\ pc = "publish"
    /\ IF selected_joint = None
       THEN /\ goal_sent' = FALSE
            /\ pc' = "sleep"
       ELSE /\ goal_sent' = goal_sent
            /\ pc' = "wait_for_server"
    /\ UNCHANGED <<running, selected_joint, last_pressed, positions, keycode,
                   now, goals, server_ready, nkeys, seen>>

\* Goal messages in which the gripper goal carries one value for two joints.
GoalMsgOneFinger(sel) ==
    IF sel.kind = "int" THEN
        [client |-> "arm", joint_names |-> ArmJointNames,
         positions |-> joint_positions_arm, time_from_start |-> 1]
    ELSE IF sel.kind = "torso" THEN
        [client |-> "torso", joint_names |-> TorsoJointNames,
         positions |-> <<joint_position_torso>>, time_from_start |-> 1]
    ELSE
        [client |-> "gripper", joint_names |-> GripperJointNames,
         positions |-> <<joint_position_gripper>>, time_from_start |-> 1]

\* goal_msg of _send_goal_arm / _send_goal_torso / _send_goal_gripper.
GoalMsg(sel) ==
    IF sel.kind = "int" THEN
        [client |-> "arm", joint_names |-> ArmJointNames,
         positions |-> joint_positions_arm, time_from_start |-> 1]
    ELSE IF sel.kind = "torso" THEN
        [client |-> "torso", joint_names |-> TorsoJointNames,
         positions |-> <<joint_position_torso>>, time_from_start |-> 1]
    ELSE
        [client |-> "gripper", joint_names |-> GripperJointNames,
         positions |-> <<joint_position_gripper, joint_position_gripper>>,
         time_from_start |-> 1]

\* A goal in the transport: the message, the acknowledgment delivered to
\* goal_response_callback ("none" until then), whether get_result_async was
\* called, and the lines get_logger().info wrote for it, in order.
Submitted(msg) ==
    [msg |-> msg, ack |-> "none", result_requested |-> FALSE, logged |-> <<>>]

\* What wait_for_server() waits for.
ServerIsReady(client) == client \in server_ready

\* A send that waits for the acknowledgment (send_goal in place of
\* send_goal_async): run() is held until the acknowledgment arrives.
SendGoalAwaitingAck ==
    /\ pc = "wait_for_server"
    /\ ServerIsReady(ClientOf(selected_joint))
    /\ goals' = Append(goals, Submitted(GoalMsg(selected_joint)))
    /\ pc' = "await_acknowledgment"
    /\ UNCHANGED <<control, keycode, now, server_ready, nkeys, seen>>

\* wait_for_server() returns; send_goal_async(goal_msg); add_done_callback;
\* back in run(): self._goal_sent = False.
SendGoal ==
    /\ pc = "wait_for_server"
    /\ ServerIsReady(ClientOf(selected_joint))
    /\ goals' = Append(goals, Submitted(GoalMsg(selected_joint)))
    /\ goal_sent' = FALSE
    /\ pc' = "sleep"
    /\ UNCHANGED <<running, selected_joint, last_pressed, positions, keycode,
                   now, server_ready, nkeys, seen>>

\* time.sleep(1.0 / self._hz)
Sleep ==
    /\ pc = "sleep"
    /\ now' = now + SleepTime
    /\ pc' = "loop"
    /\ UNCHANGED <<control, keycode, goals, server_ready, nkeys, seen>>

\* ------------------------------------------------------------ the transport
\* wait_for_server() finds the server of the client it waits for.
ServerFound ==
    /\ pc = "wait_for_server"
    /\ ~ServerIsReady(ClientOf(selected_joint))
    /\ server_ready' = server_ready \cup {ClientOf(selected_joint)}
    /\ UNCHANGED <<control, keycode, pc, now, goals, nkeys, seen>>

\* A callback without the `return` of the rejected branch.
GoalResponseNoReturn(g, accepted) ==
    [g EXCEPT !.ack = IF accepted THEN "accepted" ELSE "rejected",
              !.logged = IF accepted THEN Append(@, <<"Goal accepted">>)
                         ELSE Append(Append(@, <<"Goal rejected">>),
                                     <<"Goal accepted">>),
              !.result_requested = TRUE]

\* goal_response_callback(future) run on goal g, goal_handle.accepted given.
GoalResponse(g, accepted) ==
    IF ~accepted
    THEN [g EXCEPT !.ack = "rejected",
                   !.logged = Append(@, <<"Goal rejected">>)]
    ELSE [g EXCEPT !.ack = "accepted",
                   !.logged = Append(@, <<"Goal accepted">>),
                   !.result_requested = TRUE]

\* A callback that gives up the selection when the goal is rejected.
GoalResponseCallbackDeselecting ==
    /\ pc # "done"
    /\ \E i \in 1..Len(goals), accepted \in BOOLEAN :
        /\ goals[i].ack = "none"
        /\ goals' = [goals EXCEPT ![i] = GoalResponse(goals[i], accepted)]
        /\ selected_joint' = IF accepted THEN selected_joint ELSE None
    /\ UNCHANGED <<running, goal_sent, last_pressed, positions, keycode, pc,
                   now, server_ready, nkeys, seen>>

\* A callback that reaches the last submitted goal alone, through
\* self._send_goal_future.
GoalResponseCallbackLastOnly ==
    /\ pc # "done"
    /\ \E i \in {Len(goals)} \ {0}, accepted \in BOOLEAN :
        /\ goals[i].ack = "none"
        /\ goals' = [goals EXCEPT ![i] = GoalResponse(goals[i], accepted)]
    /\ UNCHANGED <<control, keycode, pc, now, server_ready, nkeys, seen>>

\* The send_goal future of the i-th goal completes.
GoalResponseCallback ==
    /\ pc # "done"
    /\ \E i \in 1..Len(goals), accepted \in BOOLEAN :
        /\ goals[i].ack = "none"
        /\ goals' = [goals EXCEPT ![i] = GoalResponse(goals[i], accepted)]
    /\ UNCHANGED <<control, keycode, pc, now, server_ready, nkeys, seen>>

\* get_result_callback(future) run on goal g, result.error_code given.
GetResult(g, code) ==
    [g EXCEPT !.logged = Append(@, <<"Result", code>>)]

\* Whether the result of goal g is still to be delivered.
ResultPending(g) ==
    /\ g.result_requested
    /\ \A j \in 1..Len(g.logged) : g.logged[j][1] # "Result"

\* The get_result future of the i-th goal completes.
GetResultCallback ==
    /\ pc # "done"
    /\ \E i \in 1..Len(goals), code \in ErrorCodes :
        /\ ResultPending(goals[i])
        /\ goals' = [goals EXCEPT ![i] = GetResult(goals[i], code)]
    /\ UNCHANGED <<control, keycode, pc, now, server_ready, nkeys, seen>>

LoopNext == ReadKey \/ LoopExit \/ SetVelocity \/ Publish \/ SendGoal \/ Sleep

Next ==
    \/ ReadKey
    \/ LoopExit
    \/ SetVelocity
    \/ Publish
    \/ SendGoal
    \/ Sleep
    \/ ServerFound
    \/ GoalResponseCallback
    \/ GetResultCallback

Spec == Init /\ [][Next]_vars

\* The control loop is one thread that runs whenever it can; nothing makes
\* a server start, an acknowledgment arrive or a result arrive.
LiveSpec == Init /\ [][Next]_vars /\ WF_vars(LoopNext)

\* The control loop with every key code at the operator's hand; no
\* acknowledgment or result is delivered.
WideNext ==
    \/ ReadKeyWide
    \/ LoopExit
    \/ SetVelocity
    \/ Publish
    \/ SendGoal
    \/ Sleep
    \/ ServerFound

WideSpec == Init /\ [][WideNext]_vars

\* The control loop of an operator who types digits alone: no step of it
\* enters _publish.
DigitNext ==
    \/ ReadKeyDigits
    \/ SetVelocity
    \/ Sleep

DigitSpec == Init /\ [][DigitNext]_vars

\* _set_velocity() reading the clock less than PressedDuration after the key
\* handler of its tick.
SetVelocityPrompt == SetVelocity /\ now' - now < PressedDuration

\* The runs in which every integration step is that prompt.
PromptNext ==
    \/ ReadKey
    \/ LoopExit
    \/ SetVelocityPrompt
    \/ Publish
    \/ SendGoal
    \/ Sleep
    \/ ServerFound
    \/ GoalResponseCallback
    \/ GetResultCallback

PromptSpec == Init /\ [][PromptNext]_vars

\* ------------------------------------------------------------------ claims
\* The position of the target a selection names.
TargetOf(sel, arm, torso, gripper) ==
    IF sel.kind = "int" THEN arm[sel.index + 1]
    ELSE IF sel.kind = "torso" THEN torso
    ELSE gripper

Target == TargetOf(selected_joint, joint_positions_arm, joint_position_torso,
                   joint_position_gripper)

\* The step of the integration: the only one that leaves pc = "integrate".
\* The clock value it reads is now'.
Integrates == pc = "integrate" /\ pc' # "integrate"

\* The recorded presses less than 0.4 s old when the integration reads the clock.
Fresh == {k \in DOMAIN last_pressed : now' - last_pressed[k] < 4}

\* The state is the one an integration step has just produced.
JustIntegrated == seen.ticks = 1 /\ pc \in {"publish", "sleep"} /\ now = seen.at

SeenTarget == TargetOf(seen.selected, seen.arm, seen.torso, seen.gripper)

C2_DebounceBoundary ==
    [][(Integrates /\ selected_joint # None) =>
        /\ \A k \in DOMAIN last_pressed :
            (now' - last_pressed[k] < 4 /\ Fresh = {k})
                => Target' = Target + movement_bindings(k)
        /\ (\A k \in DOMAIN last_pressed : now' - last_pressed[k] >= 4)
                => positions' = positions
        /\ (Target' # Target) <=> (Fresh # {})]_vars

\* A press 0.3 s old has just been applied to the selected position.
C2_Witness ==
    /\ JustIntegrated
    /\ seen.selected # None
    /\ \E k \in DOMAIN seen.pressed :
        /\ seen.at - seen.pressed[k] = 3
        /\ Target = SeenTarget + movement_bindings(k)

\* C3 as stated: PendingPress is empty after every integration step.
C3_ClearedEveryTick == [][Integrates => last_pressed' = EmptyPressed]_vars

\* C3 amended: an integration step that finds a press inside the window
\* empties PendingPress; one that finds none leaves PendingPress as it is.
C3_ClearedWhenApplied ==
    [][Integrates =>
        IF Fresh # {} THEN last_pressed' = EmptyPressed
                      ELSE last_pressed' = last_pressed]_vars

\* An integration step has just found only expired presses, and kept them.
C3_Witness ==
    /\ JustIntegrated
    /\ seen.pressed # EmptyPressed
    /\ \A k \in DOMAIN seen.pressed : seen.at - seen.pressed[k] >= 4
    /\ last_pressed = seen.pressed

\* C4: an integration step that finds two different keys, one inside the
\* window and one outside it, adds the delta of the first alone to the
\* selected position and leaves PendingPress empty.
C4_BatchClear ==
    [][Integrates =>
        \A k1, k2 \in DOMAIN last_pressed :
            (/\ k1 # k2
             /\ now' - last_pressed[k1] < 4
             /\ now' - last_pressed[k2] >= 4
             /\ Fresh = {k1})
            => /\ Target' = Target + movement_bindings(k1)
               /\ last_pressed' = EmptyPressed
               /\ \A k \in DOMAIN last_pressed : k \notin DOMAIN last_pressed']_vars

\* Such a step has just happened.
C4_Witness ==
    /\ JustIntegrated
    /\ \E k1, k2 \in DOMAIN seen.pressed :
        /\ k1 # k2
        /\ seen.at - seen.pressed[k1] < 4
        /\ seen.at - seen.pressed[k2] >= 4
        /\ Target = SeenTarget + movement_bindings(k1)
        /\ last_pressed = EmptyPressed

\* The goals submitted so far, as send_goal_async received them.
Submissions == [i \in 1..Len(goals) |-> goals[i].msg]

\* The step of the key poll: the only one that leaves pc = "loop" for
\* "integrate" (or, on quit, possibly for "done" with the flag cleared).
Polls == pc = "loop" /\ pc' # "loop" /\ running

\* C5 as stated: with no group selected before and after a step, no position
\* changes, no goal is submitted, and an integration step leaves PendingPress
\* empty.
C5_UnselectedClears ==
    [][(selected_joint = None /\ selected_joint' = None) =>
        /\ positions' = positions
        /\ Submissions' = Submissions
        /\ pc' # "wait_for_server"
        /\ Integrates => last_pressed' = EmptyPressed]_vars

\* C5 amended: with no group selected before and after a step, no position
\* changes, no goal is submitted and PendingPress gains no entry; an
\* integration step that finds no press inside the window leaves the
\* entries recorded earlier where they are.
C5_UnselectedInert ==
    [][(selected_joint = None /\ selected_joint' = None) =>
        /\ positions' = positions
        /\ Submissions' = Submissions
        /\ pc' # "wait_for_server"
        /\ \A k \in DOMAIN last_pressed' :
            k \in DOMAIN last_pressed /\ last_pressed'[k] = last_pressed[k]
        /\ (Integrates /\ Fresh = {}) => last_pressed' = last_pressed]_vars

\* An adjustment key was polled with no group selected and the tick has
\* integrated: nothing moved.
C5_Witness ==
    /\ JustIntegrated
    /\ selected_joint = None
    /\ keycode \in MovementKeys
    /\ positions = <<seen.arm, seen.torso, seen.gripper>>
    /\ last_pressed = seen.pressed

\* C6 as stated: the key handler stores the time of an adjustment key polled
\* while no group is selected.
C6_UnselectedRecorded ==
    [][(Polls /\ selected_joint = None /\ keycode' \in MovementKeys) =>
        /\ keycode' \in DOMAIN last_pressed'
        /\ last_pressed'[keycode'] = now]_vars

\* C6 amended: the key handler stores nothing for an adjustment key polled
\* while no group is selected; it leaves the whole control state as it is.
C6_UnselectedNotRecorded ==
    [][(Polls /\ selected_joint = None /\ keycode' \in MovementKeys) =>
        /\ last_pressed' = last_pressed
        /\ UNCHANGED control]_vars

\* The handler has just run on an adjustment key with no group selected.
C6_Witness ==
    /\ pc = "integrate"
    /\ selected_joint = None
    /\ keycode \in MovementKeys
    /\ keycode \notin DOMAIN last_pressed

\* C7: once the flag is cleared by Quit, no step submits a goal or enters
\* the dispatch, in the rest of that tick or later.
C7_NoDispatchAfterQuit ==
    [][~running' =>
        /\ Submissions' = Submissions
        /\ pc' \notin {"publish", "wait_for_server"}
        /\ ~goal_sent']_vars

\* The tick that handled Quit went on to integrate with a recorded press
\* still in PendingPress, and dispatched nothing.
C7_Witness ==
    /\ ~running
    /\ keycode = "q"
    /\ JustIntegrated
    /\ last_pressed # EmptyPressed
    /\ pc = "sleep"

\* C8: a poll of Quit clears the flag; the flag, once false, stays false; no
\* key is polled and no integration step starts once the tick that handled
\* Quit has ended; a loop that has returned does nothing more.
C8_StoppedTerminal ==
    [][/\ (Polls /\ keycode' = "q") => ~running'
       /\ ~running => ~running'
       /\ (~running /\ pc \in {"loop", "done"}) =>
            /\ pc' \in {"loop", "done"}
            /\ keycode' = keycode
            /\ nkeys' = nkeys
            /\ seen' = seen
       /\ pc = "done" => (pc' = "done" /\ UNCHANGED control)]_vars

\* The tick that handled Quit ran to its end and the loop then returned.
C8_Witness ==
    /\ pc = "done"
    /\ ~running
    /\ keycode = "q"
    /\ seen.ticks = 1
    /\ now > seen.at

\* What C9 says of one goal of the transport.
TwoPhase(g) ==
    /\ g.result_requested <=> g.ack = "accepted"
    /\ g.ack = "none" => g.logged = <<>>
    /\ g.ack = "rejected" => g.logged = << <<"Goal rejected">> >>
    /\ g.ack = "accepted" => Len(g.logged) >= 1 /\ g.logged[1] = <<"Goal accepted">>
    /\ \A j \in 1..Len(g.logged) :
        g.logged[j][1] = "Result" =>
            \E a \in 1..(j - 1) : g.logged[a] = <<"Goal accepted">>

\* C9: for every submitted goal the result is requested exactly when the
\* acknowledgment says accepted; a rejected goal has its rejection logged and
\* nothing else; a result is logged only after the acceptance of its goal;
\* and a step that handles a rejection submits nothing.
C9_TwoPhase ==
    [][/\ \A i \in 1..Len(goals') : TwoPhase(goals'[i])
       /\ (\E i \in 1..Len(goals) :
              i <= Len(goals') /\ goals[i].ack = "none" /\ goals'[i].ack = "rejected")
            => Submissions' = Submissions
       /\ \A i \in 1..Len(goals) :
            goals[i].ack = "rejected" => (i <= Len(goals') /\ goals'[i] = goals[i])]_vars

\* One goal was accepted and its result, an error, logged; another was rejected.
C9_Witness ==
    \E i, j \in 1..Len(goals) :
        /\ goals[i].logged = << <<"Goal accepted">>, <<"Result", -1>> >>
        /\ goals[j].ack = "rejected"
        /\ ~goals[j].result_requested

\* A step of goal_response_callback or get_result_callback: a goal of the
\* transport changes and none is submitted.
CallbackRuns == Submissions' = Submissions /\ goals' # goals

\* C10: a callback step leaves selection, positions, PendingPress, the dirty
\* flag and the running flag as they are.
C10_OpenLoop ==
    [][CallbackRuns =>
        /\ selected_joint' = selected_joint
        /\ positions' = positions
        /\ last_pressed' = last_pressed
        /\ goal_sent' = goal_sent
        /\ running' = running]_vars

\* In the middle of a dispatch (dirty flag set, a position moved, a group
\* selected) one earlier goal stands rejected.
C10_Witness ==
    /\ pc = "wait_for_server"
    /\ goal_sent
    /\ selected_joint # None
    /\ positions # <<InitArm, InitTorso, InitGripper>>
    /\ \E i \in 1..Len(goals) : goals[i].ack = "rejected"

\* Goal i is the only goal a step changes.
OnlyGoalChanged(i) ==
    /\ Len(goals') = Len(goals)
    /\ \A j \in 1..Len(goals) : j # i => goals'[j] = goals[j]

\* The acknowledgment of goal i, and the result of goal i once accepted, can
\* be delivered to its callback whatever the other goals are doing.
Deliverable(i) ==
    /\ goals[i].ack = "none" =>
        /\ ENABLED (GoalResponseCallback /\ OnlyGoalChanged(i)
                        /\ goals'[i].logged = << <<"Goal accepted">> >>)
        /\ ENABLED (GoalResponseCallback /\ OnlyGoalChanged(i)
                        /\ goals'[i].logged = << <<"Goal rejected">> >>)
    /\ goals[i].logged = << <<"Goal accepted">> >> =>
        ENABLED (GetResultCallback /\ OnlyGoalChanged(i)
                    /\ Len(goals'[i].logged) = 2
                    /\ goals'[i].logged[2][1] = "Result")

\* C11: a submission is appended whatever goals are outstanding and leaves
\* every earlier goal as it is; no goal is ever dropped; and while run() has
\* not returned every outstanding goal can have its own acknowledgment
\* handled, and every accepted goal its own result logged.
C11_NoCancelNoQueue ==
    /\ [](pc # "done" => \A i \in 1..Len(goals) : Deliverable(i))
    /\ [][/\ Len(goals') >= Len(goals)
          /\ \A i \in 1..Len(goals) : goals'[i].msg = goals[i].msg
          /\ Len(goals') > Len(goals) =>
                /\ Len(goals') = Len(goals) + 1
                /\ \A i \in 1..Len(goals) : goals'[i] = goals[i]
          /\ pc = "wait_for_server" =>
                (ENABLED SendGoal <=> ClientOf(selected_joint) \in server_ready)]_vars

\* The second goal was submitted and rejected while the first is still
\* waiting for its acknowledgment.
C11_Witness ==
    /\ Len(goals) = 2
    /\ goals[1].ack = "none"
    /\ goals[2].logged = << <<"Goal rejected">> >>

\* The deltas of section 4.1 of the specification, in thousandths.
SpecDelta(k) ==
    CASE k = "a" -> -10
      [] k = "d" -> 10
      [] k = "w" -> 1
      [] k = "s" -> -1
      [] k = "o" -> -1570
      [] k = "p" -> 1570

LastGoal == goals[Len(goals)].msg

\* C13: a step that submits a goal submits one goal, to the client of the
\* group selected at that moment, with that group's joint names and current
\* positions as the one waypoint; a tick submits no second goal.
C13_GoalOfSelection ==
    [][Len(goals') # Len(goals) =>
        /\ Len(goals') = Len(goals) + 1
        /\ Len(goals') = seen.goals + 1
        /\ selected_joint # None
        /\ LastGoal'.time_from_start = 1
        /\ selected_joint.kind = "int" =>
              /\ LastGoal'.client = "arm"
              /\ LastGoal'.joint_names =
                    <<"arm_1_joint", "arm_2_joint", "arm_3_joint", "arm_4_joint",
                      "arm_5_joint", "arm_6_joint", "arm_7_joint">>
              /\ LastGoal'.positions = joint_positions_arm
              /\ Len(LastGoal'.positions) = 7
        /\ selected_joint.kind = "torso" =>
              /\ LastGoal'.client = "torso"
              /\ LastGoal'.joint_names = <<"torso_lift_joint">>
              /\ LastGoal'.positions = <<joint_position_torso>>
        /\ selected_joint.kind = "gripper" =>
              /\ LastGoal'.client = "gripper"
              /\ LastGoal'.joint_names =
                    <<"gripper_right_finger_joint", "gripper_left_finger_joint">>
              /\ LastGoal'.positions =
                    <<joint_position_gripper, joint_position_gripper>>]_vars

\* A gripper goal with two equal values, not the startup value, has just been
\* submitted, and it is the only goal of its tick.
C13_Witness ==
    /\ pc = "sleep"
    /\ selected_joint = [kind |-> "gripper", index |-> 0]
    /\ Len(goals) = 1
    /\ seen.goals = 0
    /\ LastGoal.client = "gripper"
    /\ LastGoal.positions = <<joint_position_gripper, joint_position_gripper>>
    /\ joint_position_gripper # 0

\* The positions the last integration step started from.
SeenPositions == <<seen.arm, seen.torso, seen.gripper>>

\* C14: a tick submits at most one goal; the loop is in the dispatch only
\* with the dirty flag set by an integration step that moved a position; at
\* the end of a tick the flag is false and a goal was submitted in the tick
\* exactly if its integration step moved a position.
C14_DispatchIffMoved ==
    /\ seen.goals <= Len(goals)
    /\ Len(goals) <= seen.goals + 1
    /\ pc \in {"publish", "wait_for_server"} =>
          (goal_sent /\ positions # SeenPositions /\ Len(goals) = seen.goals)
    /\ pc \in {"sleep", "loop"} =>
          /\ ~goal_sent
          /\ (Len(goals) = seen.goals + 1) <=> (positions # SeenPositions)

\* A tick has ended in which a position moved and a goal was submitted.
C14_Witness ==
    /\ pc = "loop"
    /\ ~goal_sent
    /\ positions # SeenPositions
    /\ Len(goals) = seen.goals + 1

\* The groups of section 4.1 of the specification.
SpecGroup(k) ==
    CASE k = "1" -> [kind |-> "int", index |-> 0]
      [] k = "2" -> [kind |-> "int", index |-> 1]
      [] k = "3" -> [kind |-> "int", index |-> 2]
      [] k = "4" -> [kind |-> "int", index |-> 3]
      [] k = "5" -> [kind |-> "int", index |-> 4]
      [] k = "6" -> [kind |-> "int", index |-> 5]
      [] k = "7" -> [kind |-> "int", index |-> 6]
      [] k = "8" -> [kind |-> "torso", index |-> 0]
      [] k = "9" -> [kind |-> "gripper", index |-> 0]

Digits == {"1", "2", "3", "4", "5", "6", "7", "8", "9"}

\* C15: when the operator types digits alone, a poll of a digit sets the
\* selection to the group of that digit, no other step changes the selection
\* (so it is the group of the last digit), the positions stay at their
\* startup values and no step enters a dispatch.
C15_LastDigit ==
    [][/\ Polls => keycode' \in Digits \cup {NoKey}
       /\ (Polls /\ keycode' \in Digits) => selected_joint' = SpecGroup(keycode')
       /\ ~(Polls /\ keycode' \in Digits) => selected_joint' = selected_joint
       /\ positions' = <<InitArm, InitTorso, InitGripper>>
       /\ goals' = <<>>
       /\ ~goal_sent'
       /\ pc' \notin {"publish", "wait_for_server"}]_vars

\* Three digits were typed; the last, 9, replaced arm joint 1 by the gripper.
C15_Witness ==
    /\ pc = "integrate"
    /\ nkeys = 3
    /\ keycode = "9"
    /\ seen.selected = [kind |-> "int", index |-> 0]
    /\ selected_joint = [kind |-> "gripper", index |-> 0]
    /\ positions = <<InitArm, InitTorso, InitGripper>>

\* C16: an integration step that finds PendingPress empty changes no
\* position, does not set the dirty flag and leaves PendingPress empty.
C16_EmptyTickInert ==
    [][(Integrates /\ last_pressed = EmptyPressed) =>
        /\ positions' = positions
        /\ goal_sent' = goal_sent
        /\ ~goal_sent'
        /\ last_pressed' = EmptyPressed
        /\ pc' = "sleep"]_vars

\* With a group selected and a position already moved, a tick has just
\* integrated an empty PendingPress.
C16_Witness ==
    /\ JustIntegrated
    /\ seen.pressed = EmptyPressed
    /\ seen.selected # None
    /\ positions # <<InitArm, InitTorso, InitGripper>>
    /\ positions = SeenPositions
    /\ ~goal_sent

\* A key code bound to nothing.
Unbound(k) ==
    /\ k # NoKey
    /\ k \notin Digits
    /\ k \notin {"a", "d", "w", "s", "o", "p", "r", "q"}

\* C17: the poll of an unbound key leaves selection, positions, PendingPress
\* and both flags as they are, and the integration step of that tick moves
\* nothing and leads to no dispatch.
C17_UnboundIgnored ==
    [][/\ (Polls /\ Unbound(keycode')) =>
            /\ UNCHANGED control
            /\ pc' = "integrate"
       /\ (Integrates /\ Unbound(keycode)) =>
            /\ UNCHANGED control
            /\ Submissions' = Submissions
            /\ pc' = "sleep"]_vars

\* The tick of an unbound key has integrated, with a group selected and an
\* expired press in PendingPress: all is as it was.
C17_Witness ==
    /\ JustIntegrated
    /\ keycode = "x"
    /\ selected_joint # None
    /\ last_pressed # EmptyPressed
    /\ last_pressed = seen.pressed
    /\ pc = "sleep"

\* C18: when every integration step reads the clock less than 0.4 s after
\* the key handler of its tick, PendingPress never holds more than one key,
\* holds a key only between the handler that recorded it and the integration
\* step of the same tick, and is empty at every other point of the loop.
C18_ConsumedInOwnTick ==
    /\ Cardinality(DOMAIN last_pressed) <= 1
    /\ pc # "integrate" => last_pressed = EmptyPressed
    /\ (pc = "integrate" /\ last_pressed # EmptyPressed) =>
          /\ DOMAIN last_pressed = {keycode}
          /\ last_pressed[keycode] = now

\* Two presses were polled and each was consumed by its own tick.
C18_Witness ==
    /\ pc = "loop"
    /\ nkeys = 3
    /\ last_pressed = EmptyPressed
    /\ seen.pressed # EmptyPressed
    /\ seen.polled.torso = -1560
    /\ joint_position_torso = -1410

\* C19: under the same condition, outside the interval between a key handler
\* and the integration step of its tick, every position is its startup value
\* plus the sum of the deltas of the adjustment keys polled while its target
\* was selected.
C19_SumOfPolled ==
    pc # "integrate" =>
        /\ \A i \in 1..7 :
            joint_positions_arm[i] = InitArm[i] + seen.polled.arm[i]
        /\ joint_position_torso = 150 + seen.polled.torso
        /\ joint_position_gripper = 0 + seen.polled.gripper

\* The same key was polled twice for arm joint 3 and applied twice, to it alone.
C19_Witness ==
    /\ pc = "sleep"
    /\ seen.polled.arm = <<0, 0, 20, 0, 0, 0, 0>>
    /\ joint_positions_arm = <<200, -1340, -180, 1940, -1570, 1370, 0>>
    /\ joint_position_torso = 150
    /\ joint_position_gripper = 0

====
